---- MODULE Spec2Model ----
(***************************************************************************)
(* Proactive-message scheduling protocol of buppy.                        *)
(*                                                                         *)
(* One bot document in the "Bots" collection, one Celery task queue, two   *)
(* change-notification handlers that run the transactional scheduling     *)
(* update (event_handlers/proactive_event_handler.py), the Celery worker   *)
(* task that sends a message and re-arms itself, and the admin panel's     *)
(* cancellation (celery_tasks/proactive_messaging_task.py).                *)
(*                                                                         *)
(* Spec is that protocol with its processes interleaved; FaultSpec adds    *)
(* the failures of the queue to the scheduling paths; CallSpec runs the    *)
(* operations one after another, also on a bot without a document; FnSpec  *)
(* applies the pure functions (utils/proactive_messaging_utils.py, the     *)
(* settings validator and loader, format_messages of main.py) to arguments *)
(* drawn from bounded sets; ChainSpec is the worker chain alone, under     *)
(* weak fairness; BotsSpec has two bots on one queue; EventSpec has the    *)
(* admin app change the stored interval and the change events handled in   *)
(* any order; AdminSpec has two sessions of the admin panel's task tab;    *)
(* LocalSpec is the in-process scheduler of main.py; MentionSpec is        *)
(* handle_mention_events of main.py on two events.                         *)
(***************************************************************************)
EXTENDS Integers, FiniteSets, Sequences, TLC

\* ---------------------------------------------------------------- bounds
MaxTasks == 3            \* task ids the queue may issue in one behaviour
MaxAttempts == 2         \* attempts of the transactional wrapper per call
MaxEta == 2              \* distinct eta values a schedule computation yields
MaxInterval == 2         \* largest interval_days of a settings object, in days
MaxNow == 1              \* clock readings a schedule computation may start from
RandomSteps == 4         \* random.random() yields k / RandomSteps, 0 <= k < RandomSteps
MaxText == 2             \* distinct system prompts and distinct channels
MaxCalls == 2            \* direct calls made one after another in one behaviour

\* ---------------------------------------------------------------- values
Absent == -1             \* a field that is not in the document
Null == 0                \* Python None
TaskIds == 1..MaxTasks
Etas == 1..MaxEta
Handlers == {1, 2}       \* concurrent change-notification handler runs

VARIABLES
    doc,          \* the bot document: top-level and proactive_messaging.* fields
    status,       \* task queue: state of every task id
    successor,    \* worker local task.id: the successor a running worker enqueued
    eta,          \* worker local next_schedule_time: the eta of that successor
    owner,        \* who enqueued each task: handler number, or 0 for a worker
    revokeCalls,  \* control.revoke(id) calls issued so far, per id
    revokedBy,    \* the callers that issued control.revoke(id), per id
    nextId,       \* next task id the queue hands out
    tx,           \* per handler: position and locals of the scheduling transaction
    stale,        \* handlers whose transactional read has been overwritten since
    cancel,       \* position and locals of cancel_current_proactive_message_task
    fn,           \* the function application made, with its arguments and result
    call,         \* the last direct call made, and how many were made before it
    fleet,        \* several bots: their documents, the bot of every task, and
                  \* the bot the last operation was called for
    feed,         \* the stored interval, the change events not yet handled,
                  \* and the event of the last transaction
    panel,        \* the admin sessions: what each has rendered and clicked
    app           \* the Slack app process of main.py: its scheduler's jobs and
                  \* the mention it is handling

vars == <<doc, status, successor, eta, owner, revokeCalls, revokedBy, nextId,
          tx, stale, cancel, fn, call, fleet, feed, panel, app>>

\* ------------------------------------------------------- pure operations

\* dict.get(key, None): an absent key reads as None
DictGet(v) == IF v = Absent THEN Null ELSE v

\* datetime.isoformat() and datetime.fromisoformat(): stored text of an eta
IsoFormat(e) == 100 + e
FromIsoFormat(s) == s - 100

\* bot_doc.get("current_task_id", None) inside the transaction
ReadPredecessor(d) == DictGet(d.top_task)

\* get_current_task_id: the ledger entry of an existing document, None for a
\* document that does not exist
get_current_task_id(d) == IF d.exists THEN DictGet(d.pm_task) ELSE Null

\* celery_app.control.revoke(id): a pending task is discarded, a task that is
\* running or has finished is left alone
RevokedStatus(st, id) ==
    IF st[id] = "pending" THEN [st EXCEPT ![id] = "revoked"] ELSE st

\* revoke_existing_tasks(celery_app, task_id): the ids it revokes, none for a
\* falsy id
revoke_existing_tasks(task_id) == IF task_id # Null THEN {task_id} ELSE {}

\* a cancellation write that deletes the timestamp and leaves the task id
update_task_in_firestore_keeps_task_id(d, task_id, e) ==
    IF task_id # Null
    THEN IF e # Null
         THEN [d EXCEPT !.pm_task = task_id, !.pm_sched = IsoFormat(e)]
         ELSE [d EXCEPT !.pm_task = task_id]
    ELSE [d EXCEPT !.pm_sched = Absent]

\* a cancellation write that deletes the task id and leaves the timestamp
update_task_in_firestore_keeps_timestamp(d, task_id, e) ==
    IF task_id # Null
    THEN IF e # Null
         THEN [d EXCEPT !.pm_task = task_id, !.pm_sched = IsoFormat(e)]
         ELSE [d EXCEPT !.pm_task = task_id]
    ELSE [d EXCEPT !.pm_task = Absent]

\* update_data of update_task_in_firestore(db, bot, task_id, eta)
update_task_in_firestore(d, task_id, e) ==
    IF task_id # Null
    THEN IF e # Null
         THEN [d EXCEPT !.pm_task = task_id, !.pm_sched = IsoFormat(e)]
         ELSE [d EXCEPT !.pm_task = task_id]
    ELSE [d EXCEPT !.pm_task = Absent, !.pm_sched = Absent]

\* a buffered write made ahead of the enqueue: it names the id the queue will
\* issue after the one in hand
TransactionUpdate_ahead(d, task_id) == [d EXCEPT !.pm_task = task_id + 1]

\* the buffered write of execute_proactive_messaging_update
TransactionUpdate(d, task_id) == [d EXCEPT !.pm_task = task_id]

\* a failure cleanup that revokes whatever the ledger names at that moment
ExceptRevokeTarget_current(newTask, d) == get_current_task_id(d)

\* the id the except-branch of execute_proactive_messaging_update revokes
ExceptRevokeTarget(newTask, d) == newTask

Canceller == 3           \* caller tag of the cancellation in revokedBy

IdleTx == [pc |-> "idle", pred |-> Null, ledger |-> Null, new |-> Null,
           attempts |-> 0, enqueued |-> {}, err |-> "none"]
IdleCancel == [pc |-> "idle", cur |-> Null]
NoFn == [op |-> "none"]
NoCall == [op |-> "none", prev |-> "none", n |-> 0, raised |-> "none"]
NoFleet == [last |-> 0]
NoFeed == [writes |-> 0]
NoPanel == [rendered |-> 0]
NoApp == [started |-> FALSE]

\* handlers whose transactional read precedes a write that lands now
Invalidated == {h \in Handlers : tx[h].pc = "commit"}

\* -------------------------------------------------------------- initial
\* A bot document as the admin app uploads it (no ledger fields), or the same
\* bot after one schedule was armed: by a scheduling transaction, which writes
\* current_task_id alone, or by a worker re-arm, which writes both fields.
\* No code of the repository writes the top-level current_task_id that the
\* transaction reads; a document carries it only when it was put there from
\* outside, and then it names the armed task.
Init ==
    /\ \/ /\ doc = [exists |-> TRUE, top_task |-> Absent, pm_task |-> Absent, pm_sched |-> Absent]
          /\ status = [t \in TaskIds |-> "none"]
          /\ nextId = 1
       \/ \E e \in Etas : \E s \in {Absent, IsoFormat(e)} : \E top \in {Absent, 1} :
          /\ doc = [exists |-> TRUE, top_task |-> top, pm_task |-> 1, pm_sched |-> s]
          /\ status = [t \in TaskIds |-> IF t = 1 THEN "pending" ELSE "none"]
          /\ nextId = 2
    /\ successor = [t \in TaskIds |-> Null]
    /\ eta = [t \in TaskIds |-> Null]
    /\ owner = [t \in TaskIds |-> 0]
    /\ revokeCalls = [t \in TaskIds |-> 0]
    /\ revokedBy = [t \in TaskIds |-> {}]
    /\ tx = [h \in Handlers |-> IdleTx]
    /\ stale = {}
    /\ cancel = IdleCancel
    /\ fn = NoFn
    /\ call = NoCall
    /\ fleet = NoFleet
    /\ feed = NoFeed
    /\ panel = NoPanel
    /\ app = NoApp

\* ------------------------------------------------- scheduling transaction

\* control.revoke for each id of ids by caller who, on queue state st
RevokeEach(ids, who, st) ==
    /\ status' = [t \in TaskIds |->
                     IF t \in ids THEN RevokedStatus(st, t)[t] ELSE st[t]]
    /\ revokeCalls' = [t \in TaskIds |->
                     IF t \in ids THEN revokeCalls[t] + 1 ELSE revokeCalls[t]]
    /\ revokedBy' = [t \in TaskIds |->
                     IF t \in ids THEN revokedBy[t] \cup {who} ELSE revokedBy[t]]

\* apply_async(args, eta): the queue issues the next id; the task fires at a
\* time of the queue's choosing, so the eta is kept by the caller alone
Enqueued(who) ==
    /\ nextId <= MaxTasks
    /\ owner' = [owner EXCEPT ![nextId] = who]
    /\ nextId' = nextId + 1

\* execute_proactive_messaging_update, from the transactional read to the
\* buffered update and the finally clause; the commit is the wrapper's
TxBody(h) ==
    /\ tx[h].pc \in {"idle", "retry"}
    /\ Enqueued(h)
    /\ LET pred == ReadPredecessor(doc)
           st == [status EXCEPT ![nextId] = "pending"]
       IN /\ RevokeEach(revoke_existing_tasks(pred), h, st)
          /\ tx' = [tx EXCEPT ![h] =
                       [pc |-> "commit", pred |-> pred,
                        ledger |-> get_current_task_id(doc), new |-> nextId,
                        attempts |-> tx[h].attempts + 1,
                        enqueued |-> tx[h].enqueued \cup {nextId},
                        err |-> "none"]]
    /\ stale' = stale \ {h}
    /\ UNCHANGED <<fn, call, fleet, feed, panel, app, doc, successor, eta, cancel>>

\* the same body when transaction.update raises: the except branch revokes,
\* the finally clause revokes the predecessor, the exception leaves the wrapper
TxBodyUpdateRaises(h) ==
    /\ tx[h].pc \in {"idle", "retry"}
    /\ Enqueued(h)
    /\ LET pred == ReadPredecessor(doc)
           st == [status EXCEPT ![nextId] = "pending"]
       IN /\ RevokeEach({ExceptRevokeTarget(nextId, doc)}
                           \cup revoke_existing_tasks(pred), h, st)
          /\ tx' = [tx EXCEPT ![h] =
                       [pc |-> "failed", pred |-> pred,
                        ledger |-> get_current_task_id(doc), new |-> nextId,
                        attempts |-> tx[h].attempts + 1,
                        enqueued |-> tx[h].enqueued \cup {nextId},
                        err |-> "update"]]
    /\ stale' = stale \ {h}
    /\ UNCHANGED <<fn, call, fleet, feed, panel, app, doc, successor, eta, cancel>>

\* a cleanup that runs the finally clause although the try was never entered
EnqueueFailureRevokes_finally(pred) == revoke_existing_tasks(pred)

\* the ids revoked when apply_async raises: the call stands before the try
\* statement, so neither the except branch nor the finally clause runs
EnqueueFailureRevokes(pred) == {}

\* the same body when apply_async raises: no task, no buffered update, and the
\* exception leaves the wrapper
TxBodyEnqueueRaises(h) ==
    /\ tx[h].pc \in {"idle", "retry"}
    /\ LET pred == ReadPredecessor(doc)
       IN /\ RevokeEach(EnqueueFailureRevokes(pred), h, status)
          /\ tx' = [tx EXCEPT ![h] =
                       [pc |-> "failed", pred |-> pred,
                        ledger |-> get_current_task_id(doc), new |-> Null,
                        attempts |-> tx[h].attempts + 1,
                        enqueued |-> tx[h].enqueued, err |-> "enqueue"]]
    /\ stale' = stale \ {h}
    /\ UNCHANGED <<fn, call, fleet, feed, panel, app, doc, successor, eta, owner, nextId, cancel>>

\* the same body when control.revoke raises in the finally clause, after the
\* update was buffered: the queue is not told, the exception leaves the body
\* and the wrapper rolls back instead of committing
TxBodyRevokeRaises(h) ==
    /\ tx[h].pc \in {"idle", "retry"}
    /\ revoke_existing_tasks(ReadPredecessor(doc)) # {}
    /\ Enqueued(h)
    /\ status' = [status EXCEPT ![nextId] = "pending"]
    /\ tx' = [tx EXCEPT ![h] =
                 [pc |-> "failed", pred |-> ReadPredecessor(doc),
                  ledger |-> get_current_task_id(doc), new |-> nextId,
                  attempts |-> tx[h].attempts + 1,
                  enqueued |-> tx[h].enqueued \cup {nextId}, err |-> "revoke"]]
    /\ stale' = stale \ {h}
    /\ UNCHANGED <<fn, call, fleet, feed, panel, app, doc, successor, eta, revokeCalls, revokedBy, cancel>>

\* the wrapper's commit succeeds: the buffered update reaches the document
TxCommit(h) ==
    /\ tx[h].pc = "commit"
    /\ h \notin stale
    /\ doc' = TransactionUpdate(doc, tx[h].new)
    /\ tx' = [tx EXCEPT ![h].pc = "done"]
    /\ stale' = (stale \cup Invalidated) \ {h}
    /\ UNCHANGED <<fn, call, fleet, feed, panel, app, status, successor, eta, owner, revokeCalls, revokedBy, nextId,
                   cancel>>

\* the commit is aborted by a conflicting write: the wrapper runs the body
\* again, or gives up after its last attempt
TxAborted(h) ==
    /\ tx[h].pc = "commit"
    /\ h \in stale
    /\ tx' = [tx EXCEPT ![h].pc =
                 IF tx[h].attempts < MaxAttempts THEN "retry" ELSE "failed",
                          ![h].err = "aborted"]
    /\ stale' = stale \ {h}
    /\ UNCHANGED <<fn, call, fleet, feed, panel, app, doc, status, successor, eta, owner, revokeCalls, revokedBy,
                   nextId, cancel>>

\* the commit fails with an error the wrapper does not retry
TxCommitError(h) ==
    /\ tx[h].pc = "commit"
    /\ tx' = [tx EXCEPT ![h].pc = "failed", ![h].err = "commit"]
    /\ stale' = stale \ {h}
    /\ UNCHANGED <<fn, call, fleet, feed, panel, app, doc, status, successor, eta, owner, revokeCalls, revokedBy,
                   nextId, cancel>>

\* ------------------------------------------------------------ the worker

\* the queue starts a pending task at its eta
WorkerFire(t) ==
    /\ status[t] = "pending"
    /\ status' = [status EXCEPT ![t] = "running"]
    /\ UNCHANGED <<fn, call, fleet, feed, panel, app, doc, successor, eta, owner, revokeCalls, revokedBy, nextId,
                   tx, stale, cancel>>

\* generate_and_send_proactive_message_sync raises: the task ends there
WorkerSendRaises(t) ==
    /\ status[t] = "running"
    /\ status' = [status EXCEPT ![t] = "failed"]
    /\ UNCHANGED <<fn, call, fleet, feed, panel, app, doc, successor, eta, owner, revokeCalls, revokedBy, nextId,
                   tx, stale, cancel>>

\* the message is sent; apply_async raises in schedule_proactive_message_task
\* and nothing catches it
WorkerEnqueueRaises(t) ==
    /\ status[t] = "running"
    /\ status' = [status EXCEPT ![t] = "failed"]
    /\ UNCHANGED <<fn, call, fleet, feed, panel, app, doc, successor, eta, owner, revokeCalls, revokedBy,
                   nextId, tx, stale, cancel>>

\* the message is sent; schedule_proactive_message_task enqueues the successor
WorkerEnqueue(t) ==
    /\ status[t] = "running"
    /\ Enqueued(0)
    /\ status' = [status EXCEPT ![t] = "arming", ![nextId] = "pending"]
    /\ successor' = [successor EXCEPT ![t] = nextId]
    /\ \E e \in Etas : eta' = [eta EXCEPT ![t] = e]
    /\ UNCHANGED <<fn, call, fleet, feed, panel, app, doc, revokeCalls, revokedBy, tx, stale, cancel>>

\* a worker that writes the id of the task that fired
WorkerWrite_own_id(t) ==
    /\ status[t] = "arming"
    /\ doc' = update_task_in_firestore(doc, t, eta[t])
    /\ status' = [status EXCEPT ![t] = "done"]
    /\ successor' = [successor EXCEPT ![t] = Null]
    /\ eta' = [eta EXCEPT ![t] = Null]
    /\ stale' = stale \cup Invalidated
    /\ UNCHANGED <<fn, call, fleet, feed, panel, app, owner, revokeCalls, revokedBy, nextId, tx,
                   cancel>>

\* update_task_in_firestore(db, bot, task.id, next_schedule_time)
WorkerWrite(t) ==
    /\ status[t] = "arming"
    /\ doc' = update_task_in_firestore(doc, successor[t], eta[t])
    /\ status' = [status EXCEPT ![t] = "done"]
    /\ successor' = [successor EXCEPT ![t] = Null]
    /\ eta' = [eta EXCEPT ![t] = Null]
    /\ stale' = stale \cup Invalidated
    /\ UNCHANGED <<fn, call, fleet, feed, panel, app, owner, revokeCalls, revokedBy, nextId, tx,
                   cancel>>

\* bot_ref.update raises in update_task_in_firestore: nothing catches it
WorkerWriteRaises(t) ==
    /\ status[t] = "arming"
    /\ status' = [status EXCEPT ![t] = "failed"]
    /\ successor' = [successor EXCEPT ![t] = Null]
    /\ eta' = [eta EXCEPT ![t] = Null]
    /\ UNCHANGED <<fn, call, fleet, feed, panel, app, doc, owner, revokeCalls, revokedBy, nextId,
                   tx, stale, cancel>>

\* ---------------------------------------------------------- cancellation

\* current_task_id = get_current_task_id(db, bot_user_id); if current_task_id:
CancelRead ==
    /\ cancel.pc = "idle"
    /\ LET cur == get_current_task_id(doc)
       IN cancel' = [pc |-> IF cur # Null THEN "revoke" ELSE "done", cur |-> cur]
    /\ UNCHANGED <<fn, call, fleet, feed, panel, app, doc, status, successor, eta, owner, revokeCalls, revokedBy,
                   nextId, tx, stale>>

\* celery_app.control.revoke(current_task_id)
CancelRevoke ==
    /\ cancel.pc = "revoke"
    /\ RevokeEach({cancel.cur}, Canceller, status)
    /\ cancel' = [cancel EXCEPT !.pc = "write"]
    /\ UNCHANGED <<fn, call, fleet, feed, panel, app, doc, successor, eta, owner, nextId, tx, stale>>

\* update_task_in_firestore(db, bot_user_id, None, None)
CancelWrite ==
    /\ cancel.pc = "write"
    /\ doc' = update_task_in_firestore(doc, Null, Null)
    /\ cancel' = [cancel EXCEPT !.pc = "done"]
    /\ stale' = stale \cup Invalidated
    /\ UNCHANGED <<fn, call, fleet, feed, panel, app, status, successor, eta, owner, revokeCalls, revokedBy, nextId,
                   tx>>

CancelReturn ==
    /\ cancel.pc = "done"
    /\ cancel' = IdleCancel
    /\ UNCHANGED <<fn, call, fleet, feed, panel, app, doc, status, successor, eta, owner, revokeCalls, revokedBy,
                   nextId, tx, stale>>

\* ----------------------------------------------------------- behaviours
Next ==
    \/ \E h \in Handlers : TxBody(h)
    \/ \E h \in Handlers : TxBodyUpdateRaises(h)
    \/ \E h \in Handlers : TxCommit(h)
    \/ \E h \in Handlers : TxAborted(h)
    \/ \E h \in Handlers : TxCommitError(h)
    \/ \E t \in TaskIds : WorkerFire(t)
    \/ \E t \in TaskIds : WorkerSendRaises(t)
    \/ \E t \in TaskIds : WorkerEnqueue(t)
    \/ \E t \in TaskIds : WorkerWrite(t)
    \/ \E t \in TaskIds : WorkerWriteRaises(t)
    \/ CancelRead
    \/ CancelRevoke
    \/ CancelWrite
    \/ CancelReturn

Spec == Init /\ [][Next]_vars

\* The scheduling paths with the failures of the queue added: apply_async or
\* control.revoke raising. The admin's cancellation takes no part.
FaultNext ==
    \/ \E h \in Handlers : TxBody(h)
    \/ \E h \in Handlers : TxBodyUpdateRaises(h)
    \/ \E h \in Handlers : TxBodyEnqueueRaises(h)
    \/ \E h \in Handlers : TxBodyRevokeRaises(h)
    \/ \E h \in Handlers : TxCommit(h)
    \/ \E h \in Handlers : TxAborted(h)
    \/ \E h \in Handlers : TxCommitError(h)
    \/ \E t \in TaskIds : WorkerFire(t)
    \/ \E t \in TaskIds : WorkerSendRaises(t)
    \/ \E t \in TaskIds : WorkerEnqueueRaises(t)
    \/ \E t \in TaskIds : WorkerEnqueue(t)
    \/ \E t \in TaskIds : WorkerWrite(t)
    \/ \E t \in TaskIds : WorkerWriteRaises(t)

FaultSpec == Init /\ [][FaultNext]_vars

\* ------------------------------------------------ the chain, unbounded
\* The worker chain of one armed bot with nothing beside it: no cancellation,
\* no failure, no change notification. The queue names every task by a fresh
\* id; here the id of a task that has finished, and that neither the ledger
\* nor a running worker still names, stands for a fresh one, so that the
\* chain can run without end over finitely many ids.

\* the bots of Init that have a task armed
ChainInit == Init /\ \E t \in TaskIds : status[t] = "pending"

\* the ids that may stand for a fresh one while worker t enqueues
FreshIds(t) ==
    {u \in TaskIds \ {t} :
        /\ status[u] \in {"none", "done"}
        /\ u # get_current_task_id(doc)}

\* a worker that sends and returns without a call of
\* schedule_proactive_message_task
ChainEnqueue_forgets(t) ==
    /\ status[t] = "running"
    /\ status' = [status EXCEPT ![t] = "done"]
    /\ UNCHANGED <<fn, call, fleet, feed, panel, app, doc, successor, eta, owner, revokeCalls, revokedBy,
                   nextId, tx, stale, cancel>>

\* the message is sent; schedule_proactive_message_task enqueues the successor
ChainEnqueue(t) ==
    /\ status[t] = "running"
    /\ \E u \in FreshIds(t) :
          /\ status' = [status EXCEPT ![t] = "arming", ![u] = "pending"]
          /\ successor' = [successor EXCEPT ![t] = u]
    /\ \E e \in Etas : eta' = [eta EXCEPT ![t] = e]
    /\ UNCHANGED <<fn, call, fleet, feed, panel, app, doc, owner, revokeCalls, revokedBy, nextId, tx,
                   stale, cancel>>

ChainNext ==
    \/ \E t \in TaskIds : WorkerFire(t)
    \/ \E t \in TaskIds : ChainEnqueue(t)
    \/ \E t \in TaskIds : WorkerWrite(t)

\* the queue starts every pending task in the end, and a worker that has
\* started runs each of its statements
ChainFairness ==
    \A t \in TaskIds :
        /\ WF_vars(WorkerFire(t))
        /\ WF_vars(ChainEnqueue(t))
        /\ WF_vars(WorkerWrite(t))

ChainSpec == ChainInit /\ [][ChainNext]_vars /\ ChainFairness

\* ------------------------------------------------------- several bots
\* Two bots on one queue. Every operation is called for one bot and runs to
\* its end before the next starts.
Bots == {1, 2}

\* an operation that addresses the document of the first bot, whatever bot it
\* was called for
BotRef_first(b) == 1

\* db.collection("Bots").document(bot_user_id)
BotRef(b) == b

\* two bots as the admin app uploads them and an empty queue, or one of them
\* armed by an earlier release that kept the id in the top-level field too
BotsInit ==
    /\ doc = [exists |-> TRUE, top_task |-> Absent, pm_task |-> Absent,
              pm_sched |-> Absent]
    /\ \E armed \in {0} \cup Bots :
          /\ status = [t \in TaskIds |->
                          IF armed # 0 /\ t = 1 THEN "pending" ELSE "none"]
          /\ nextId = IF armed # 0 THEN 2 ELSE 1
          /\ fleet = [last |-> 0,
                      docs |-> [b \in Bots |->
                                  IF b = armed
                                  THEN [exists |-> TRUE, top_task |-> 1,
                                        pm_task |-> 1, pm_sched |-> Absent]
                                  ELSE [exists |-> TRUE, top_task |-> Absent,
                                        pm_task |-> Absent,
                                        pm_sched |-> Absent]],
                      of |-> [t \in TaskIds |->
                                  IF t = 1 THEN armed ELSE 0]]
    /\ successor = [t \in TaskIds |-> Null]
    /\ eta = [t \in TaskIds |-> Null]
    /\ owner = [t \in TaskIds |-> 0]
    /\ revokeCalls = [t \in TaskIds |-> 0]
    /\ revokedBy = [t \in TaskIds |-> {}]
    /\ tx = [h \in Handlers |-> IdleTx]
    /\ stale = {}
    /\ cancel = IdleCancel
    /\ fn = NoFn
    /\ call = NoCall
    /\ feed = NoFeed
    /\ panel = NoPanel
    /\ app = NoApp

\* schedule_proactive_message_task for bot b: the enqueue, then the write
BotSchedule(b) ==
    /\ Enqueued(0)
    /\ status' = [status EXCEPT ![nextId] = "pending"]
    /\ \E e \in Etas :
          fleet' = [last |-> b,
                    docs |-> [fleet.docs EXCEPT ![BotRef(b)] =
                                 update_task_in_firestore(@, nextId, e)],
                    of |-> [fleet.of EXCEPT ![nextId] = b]]
    /\ UNCHANGED <<fn, call, feed, panel, app, doc, successor, eta, revokeCalls, revokedBy, tx,
                   stale, cancel>>

\* update_proactive_messaging_settings for bot b, with its commit
BotTransaction(b) ==
    /\ Enqueued(0)
    /\ RevokeEach(revoke_existing_tasks(ReadPredecessor(fleet.docs[BotRef(b)])),
                  0, [status EXCEPT ![nextId] = "pending"])
    /\ fleet' = [last |-> b,
                 docs |-> [fleet.docs EXCEPT ![BotRef(b)] =
                              TransactionUpdate(@, nextId)],
                 of |-> [fleet.of EXCEPT ![nextId] = b]]
    /\ UNCHANGED <<fn, call, feed, panel, app, doc, successor, eta, tx, stale, cancel>>

\* the worker of task t, from its start to its ledger write: the bot is the
\* bot_user_id of the task's arguments
BotWorker(t) ==
    /\ status[t] = "pending"
    /\ Enqueued(0)
    /\ status' = [status EXCEPT ![t] = "done", ![nextId] = "pending"]
    /\ \E e \in Etas :
          fleet' = [last |-> fleet.of[t],
                    docs |-> [fleet.docs EXCEPT ![BotRef(fleet.of[t])] =
                                 update_task_in_firestore(@, nextId, e)],
                    of |-> [fleet.of EXCEPT ![nextId] = fleet.of[t]]]
    /\ UNCHANGED <<fn, call, feed, panel, app, doc, successor, eta, revokeCalls, revokedBy, tx,
                   stale, cancel>>

\* cancel_current_proactive_message_task for bot b
BotCancel(b) ==
    /\ LET cur == get_current_task_id(fleet.docs[BotRef(b)])
       IN IF cur # Null
          THEN /\ RevokeEach({cur}, Canceller, status)
               /\ fleet' = [fleet EXCEPT !.last = b,
                                         !.docs[BotRef(b)] =
                                    update_task_in_firestore(@, Null, Null)]
          ELSE /\ fleet' = [fleet EXCEPT !.last = b]
               /\ UNCHANGED <<status, revokeCalls, revokedBy>>
    /\ UNCHANGED <<fn, call, feed, panel, app, doc, successor, eta, owner, nextId, tx, stale,
                   cancel>>

BotsNext ==
    \/ \E b \in Bots : BotSchedule(b)
    \/ \E b \in Bots : BotTransaction(b)
    \/ \E t \in TaskIds : BotWorker(t)
    \/ \E b \in Bots : BotCancel(b)

BotsSpec == BotsInit /\ [][BotsNext]_vars

\* ------------------------------------------- settings and the schedule
NoDays == -100           \* interval_days = None
DayTicks == 3            \* steps of timedelta's resolution in one day
Epoch == 10              \* the earliest clock reading, in the same steps
Intervals == {NoDays} \cup (-1..MaxInterval)
Texts == 1..MaxText
Temperatures == {1, 2}
Nows == Epoch..(Epoch + MaxNow)
Randoms == 0..(RandomSteps - 1)

\* ProactiveMessagingSettings(): every field at its default
DefaultSettings ==
    [enabled |-> FALSE, interval_days |-> NoDays, system_prompt |-> Null,
     slack_channel |-> Null, temperature |-> 1, current_task_id |-> Null,
     last_scheduled |-> Null]

\* a validator that does not ask for the channel
check_required_fields_without_channel(s) ==
    s.enabled => /\ s.interval_days # NoDays
                 /\ s.system_prompt # Null

\* the root validator: an enabled object has interval, prompt and channel
check_required_fields(s) ==
    s.enabled => /\ s.interval_days # NoDays
                 /\ s.system_prompt # Null
                 /\ s.slack_channel # Null

\* the settings objects that pass validation
SettingsSet ==
    {s \in [enabled : BOOLEAN, interval_days : Intervals, system_prompt : Texts,
            slack_channel : Texts, temperature : Temperatures,
            current_task_id : {Null, 1},
            last_scheduled : {Null, IsoFormat(Epoch)}] : check_required_fields(s)}

\* the keyword arguments a caller may pass: the values, and which are given
SettingsFields == {"enabled", "interval_days", "system_prompt", "slack_channel"}
Keywords ==
    [enabled : BOOLEAN, interval_days : Intervals, system_prompt : {Null} \cup Texts,
     slack_channel : {Null} \cup Texts]

\* ProactiveMessagingSettings(**kw): a field not given takes its default,
\* then the root validator runs
ProactiveMessagingSettings(kw, given) ==
    LET values == [DefaultSettings EXCEPT
                     !.enabled = IF "enabled" \in given THEN kw.enabled ELSE @,
                     !.interval_days =
                         IF "interval_days" \in given THEN kw.interval_days ELSE @,
                     !.system_prompt =
                         IF "system_prompt" \in given THEN kw.system_prompt ELSE @,
                     !.slack_channel =
                         IF "slack_channel" \in given THEN kw.slack_channel ELSE @]
    IN IF check_required_fields(values)
       THEN [raised |-> FALSE, value |-> values]
       ELSE [raised |-> TRUE, value |-> DefaultSettings]

\* a settings object that differs from the defaults in its interval alone
WithInterval(i) == [DefaultSettings EXCEPT !.interval_days = i]

\* a comparison of the whole settings objects
should_reschedule_any_field(old_config, new_config) == old_config # new_config

\* should_reschedule: old_interval != new_interval
should_reschedule(old_config, new_config) ==
    old_config.interval_days # new_config.interval_days

\* n / d rounded to the nearest integer, ties to even, as timedelta rounds
RoundHalfEven(n, d) ==
    LET q == n \div d
        r == n % d
    IN IF 2 * r < d THEN q
       ELSE IF 2 * r > d THEN q + 1
       ELSE IF q % 2 = 0 THEN q ELSE q + 1

\* a delay of up to three times the interval
ScheduleDelta_thrice(interval_days, k) ==
    RoundHalfEven(interval_days * k * 3 * DayTicks, RandomSteps)

\* timedelta(days=interval_days * random.random() * 2), random.random() = k / RandomSteps
ScheduleDelta(interval_days, k) ==
    RoundHalfEven(interval_days * k * 2 * DayTicks, RandomSteps)

\* calculate_next_schedule_time at clock reading now with random draw k
calculate_next_schedule_time(settings, now, k) ==
    IF settings.interval_days = NoDays
    THEN [raised |-> "ValueError", value |-> Null]
    ELSE [raised |-> "none", value |-> now + ScheduleDelta(settings.interval_days, k)]

\* safely_get_field: the default for a field the document lacks
safely_get_field(v, default) == IF v = Absent THEN default ELSE v

\* the proactive_messaging fields of a bot document as the worker finds them
StoredSettings ==
    {d \in [exists : BOOLEAN, enabled : {Absent, 0, 1}, interval_days : {Absent, 1},
            system_prompt : {Absent} \cup Texts, slack_channel : {Absent} \cup Texts,
            temperature : {Absent} \cup Temperatures] :
        ~d.exists => /\ d.enabled = Absent /\ d.interval_days = Absent
                     /\ d.system_prompt = Absent /\ d.slack_channel = Absent
                     /\ d.temperature = Absent}

\* the settings a task carries in its payload: those of the enabled app_config
\* it was enqueued with
PayloadSettings ==
    {s \in SettingsSet : /\ s.enabled /\ s.interval_days = 1
                         /\ s.current_task_id = Null /\ s.last_scheduled = Null}

\* _apply_proactive_messaging_settings_from_bot on the settings the app_config
\* holds: the stored fields replace them only when the stored enabled flag
\* (or, without one, the held flag) is true
apply_proactive_messaging_settings_from_bot(held, stored) ==
    LET enabled == IF stored.enabled = Absent THEN held.enabled
                   ELSE stored.enabled = 1
    IN IF ~enabled THEN [raised |-> "none", settings |-> held]
       ELSE IF Absent \in {stored.interval_days, stored.system_prompt,
                           stored.slack_channel}
       THEN [raised |-> "KeyError", settings |-> held]
       ELSE [raised |-> "none",
             settings |->
                 [enabled |-> TRUE, interval_days |-> stored.interval_days,
                  system_prompt |-> stored.system_prompt,
                  slack_channel |-> stored.slack_channel,
                  temperature |-> safely_get_field(stored.temperature,
                                                   held.temperature),
                  current_task_id |-> Null, last_scheduled |-> Null]]

\* load_config_from_firebase as the worker calls it
load_config_from_firebase(held, stored) ==
    IF ~stored.exists THEN [raised |-> "FileNotFoundError", settings |-> held]
    ELSE apply_proactive_messaging_settings_from_bot(held, stored)

\* ------------------------------------------------ function applications
\* everything but the record of the application made
system == <<doc, status, successor, eta, owner, revokeCalls, revokedBy, nextId,
            tx, stale, cancel>>

\* one bot with a fresh document and an empty queue; no application made yet
FnInit ==
    /\ doc = [exists |-> TRUE, top_task |-> Absent, pm_task |-> Absent,
              pm_sched |-> Absent]
    /\ status = [t \in TaskIds |-> "none"]
    /\ nextId = 1
    /\ successor = [t \in TaskIds |-> Null]
    /\ eta = [t \in TaskIds |-> Null]
    /\ owner = [t \in TaskIds |-> 0]
    /\ revokeCalls = [t \in TaskIds |-> 0]
    /\ revokedBy = [t \in TaskIds |-> {}]
    /\ tx = [h \in Handlers |-> IdleTx]
    /\ stale = {}
    /\ cancel = IdleCancel
    /\ fn = NoFn
    /\ call = NoCall
    /\ fleet = NoFleet
    /\ feed = NoFeed
    /\ panel = NoPanel
    /\ app = NoApp

\* should_reschedule(old_config, new_config)
ShouldRescheduleCall ==
    /\ fn.op = "none"
    /\ \E old \in SettingsSet : \E new \in SettingsSet :
          fn' = [op |-> "should_reschedule", old |-> old, new |-> new,
                 result |-> should_reschedule(old, new)]
    /\ UNCHANGED <<system, call, fleet, feed, panel, app>>

\* calculate_next_schedule_time(settings)
CalculateCall ==
    /\ fn.op = "none"
    /\ \E i \in Intervals : \E now \in Nows : \E k \in Randoms :
          LET r == calculate_next_schedule_time(WithInterval(i), now, k)
          IN fn' = [op |-> "calculate", settings |-> WithInterval(i), now |-> now,
                    rnd |-> k, raised |-> r.raised, value |-> r.value]
    /\ UNCHANGED <<system, call, fleet, feed, panel, app>>

\* the worker up to its send: load_config_from_firebase, then
\* generate_and_send_proactive_message_sync with the prompt, temperature and
\* channel the app_config holds by then
WorkerSendCall ==
    /\ fn.op = "none"
    /\ \E payload \in PayloadSettings : \E stored \in StoredSettings :
          LET r == load_config_from_firebase(payload, stored)
          IN fn' = [op |-> "worker_send", payload |-> payload, stored |-> stored,
                    raised |-> r.raised,
                    used |-> [system_prompt |-> r.settings.system_prompt,
                              temperature |-> r.settings.temperature,
                              slack_channel |-> r.settings.slack_channel]]
    /\ UNCHANGED <<system, call, fleet, feed, panel, app>>

\* ------------------------------------------------------ thread messages
\* A text is a sequence of tokens: "w" a word, "s" a space, "m" the mention
\* <@bot_user_id>.
MaxThread == 2
BotUserId == "U1"
MessageTexts == {<<"w">>, <<"m">>, <<"m", "s", "w", "s">>}
ThreadMessages ==
    [user : {"U1", "U2", "none"}, text : MessageTexts, ts : {1, 2},
     image : {"none", "downloads", "fails"}]
Threads == UNION {[1..n -> ThreadMessages] : n \in 0..MaxThread}

\* .replace(f"<@{bot_user_id}>", "")
RemoveMentions(text) ==
    LET NotMention(token) == token # "m" IN SelectSeq(text, NotMention)

RECURSIVE Strip(_)
\* .strip()
Strip(text) ==
    IF text = <<>> THEN text
    ELSE IF Head(text) = "s" THEN Strip(Tail(text))
    ELSE IF text[Len(text)] = "s" THEN Strip(SubSeq(text, 1, Len(text) - 1))
    ELSE text

\* every message a user message
Role_always_user(msg, bot_user_id) == "user"

\* role = "assistant" if msg.get("user") == bot_user_id else "user"
Role(msg, bot_user_id) ==
    IF msg.user = bot_user_id THEN "assistant" ELSE "user"

\* the loop body of format_messages for one message
FormatMessage(msg, bot_user_id, vision_enabled) ==
    LET text_content == Strip(RemoveMentions(msg.text))
        text_part == IF text_content # <<>>
                     THEN <<[type |-> "text", text |-> text_content]>>
                     ELSE <<>>
        image_part == IF vision_enabled /\ msg.image = "downloads"
                      THEN <<[type |-> "image_url", text |-> <<>>]>>
                      ELSE <<>>
    IN IF Role(msg, bot_user_id) = "user"
       THEN [type |-> "human", text |-> <<>>, parts |-> text_part \o image_part]
       ELSE [type |-> "ai", text |-> text_content, parts |-> <<>>]

\* format_messages(thread_messages, bot_user_id, app_config): the assertion
\* on the order of ts, then the loop, which a failed download ends
format_messages(thread_messages, bot_user_id, vision_enabled) ==
    IF \E i \in 1..(Len(thread_messages) - 1) :
          thread_messages[i].ts > thread_messages[i + 1].ts
    THEN [raised |-> "AssertionError", value |-> <<>>]
    ELSE IF vision_enabled /\ \E i \in 1..Len(thread_messages) :
                                  thread_messages[i].image = "fails"
    THEN [raised |-> "DownloadError", value |-> <<>>]
    ELSE [raised |-> "none",
          value |-> [i \in 1..Len(thread_messages) |->
                        FormatMessage(thread_messages[i], bot_user_id,
                                      vision_enabled)]]

\* format_messages(thread_messages, bot_user_id, app_config)
FormatCall ==
    /\ fn.op = "none"
    /\ \E thread \in Threads : \E vision_enabled \in BOOLEAN :
          LET r == format_messages(thread, BotUserId, vision_enabled)
          IN fn' = [op |-> "format", thread |-> thread,
                    vision_enabled |-> vision_enabled,
                    raised |-> r.raised, value |-> r.value]
    /\ UNCHANGED <<system, call, fleet, feed, panel, app>>

\* ProactiveMessagingSettings(**kw)
ConstructCall ==
    /\ fn.op = "none"
    /\ \E kw \in Keywords : \E given \in SUBSET SettingsFields :
          LET r == ProactiveMessagingSettings(kw, given)
          IN fn' = [op |-> "construct", kw |-> kw, given |-> given,
                    raised |-> r.raised, value |-> r.value]
    /\ UNCHANGED <<system, call, fleet, feed, panel, app>>

FnNext ==
    \/ ShouldRescheduleCall
    \/ CalculateCall
    \/ WorkerSendCall
    \/ ConstructCall
    \/ FormatCall

FnSpec == FnInit /\ [][FnNext]_vars

\* ------------------------------------------------------- direct calls
\* The operations called one after another, each running to its end before
\* the next starts, on a bot whose document may not exist.

\* a bot without a document, or any bot of Init
CallInit ==
    \/ Init
    \/ /\ doc = [exists |-> FALSE, top_task |-> Absent, pm_task |-> Absent,
                 pm_sched |-> Absent]
       /\ status = [t \in TaskIds |-> "none"]
       /\ nextId = 1
       /\ successor = [t \in TaskIds |-> Null]
       /\ eta = [t \in TaskIds |-> Null]
       /\ owner = [t \in TaskIds |-> 0]
       /\ revokeCalls = [t \in TaskIds |-> 0]
       /\ revokedBy = [t \in TaskIds |-> {}]
       /\ tx = [h \in Handlers |-> IdleTx]
       /\ stale = {}
       /\ cancel = IdleCancel
       /\ fn = NoFn
       /\ call = NoCall
       /\ fleet = NoFleet
       /\ feed = NoFeed
       /\ panel = NoPanel
       /\ app = NoApp

\* the record of a call that has returned or raised
Called(op, raised) ==
    call' = [op |-> op, prev |-> call.op, n |-> call.n + 1, raised |-> raised]

\* cancel_current_proactive_message_task(bot_user_id, celery_app, db)
CancelCall ==
    /\ call.n < MaxCalls
    /\ fn' = NoFn
    /\ LET cur == get_current_task_id(doc)
       IN IF cur # Null
          THEN /\ RevokeEach({cur}, Canceller, status)
               /\ doc' = update_task_in_firestore(doc, Null, Null)
          ELSE UNCHANGED <<doc, status, revokeCalls, revokedBy>>
    /\ Called("cancel", "none")
    /\ UNCHANGED <<fleet, feed, panel, app, successor, eta, owner, nextId, tx, stale, cancel>>

\* schedule_proactive_message_task(client, app_config, bot_user_id, celery_app,
\* db): the time, the enqueue, then the ledger write, which raises NotFound
\* for a document that does not exist
ScheduleCall ==
    /\ call.n < MaxCalls
    /\ fn' = NoFn
    /\ \E i \in Intervals : \E now \in Nows : \E k \in Randoms :
          LET r == calculate_next_schedule_time(WithInterval(i), now, k)
          IN IF r.raised # "none"
             THEN /\ Called("schedule", r.raised)
                  /\ UNCHANGED <<doc, status, owner, nextId>>
             ELSE /\ Enqueued(0)
                  /\ status' = [status EXCEPT ![nextId] = "pending"]
                  /\ IF doc.exists
                     THEN /\ doc' = update_task_in_firestore(doc, nextId, r.value)
                          /\ Called("schedule", "none")
                     ELSE /\ doc' = doc
                          /\ Called("schedule", "NotFound")
    /\ UNCHANGED <<fleet, feed, panel, app, successor, eta, revokeCalls, revokedBy, tx, stale, cancel>>

\* update_proactive_messaging_settings with nothing running beside it: the
\* body of execute_proactive_messaging_update and the wrapper's commit. The
\* snapshot of a document that does not exist has no dict to read.
ExecuteUpdate(op, settings, now, k) ==
    LET r == calculate_next_schedule_time(settings, now, k)
        pred == ReadPredecessor(doc)
    IN IF ~doc.exists
       THEN /\ Called(op, "AttributeError")
            /\ UNCHANGED <<doc, status, owner, nextId, revokeCalls, revokedBy>>
       ELSE IF r.raised # "none"
       THEN /\ Called(op, r.raised)
            /\ UNCHANGED <<doc, status, owner, nextId, revokeCalls, revokedBy>>
       ELSE /\ Enqueued(0)
            /\ RevokeEach(revoke_existing_tasks(pred), 0,
                          [status EXCEPT ![nextId] = "pending"])
            /\ doc' = TransactionUpdate(doc, nextId)
            /\ Called(op, "none")

\* update_proactive_messaging_settings(transaction, celery_app, context, bot_ref)
ExecuteUpdateCall ==
    /\ call.n < MaxCalls
    /\ fn' = NoFn
    /\ \E i \in Intervals : \E now \in Nows : \E k \in Randoms :
          ExecuteUpdate("execute_update", WithInterval(i), now, k)
    /\ UNCHANGED <<fleet, feed, panel, app, successor, eta, tx, stale, cancel>>

\* a snapshot of the event: without a proactive_messaging field, or with one
\* that holds no interval or an interval the admin form accepts
NoConfig == -200
Snapshots == {NoConfig, NoDays} \cup (0..MaxInterval)

\* a reading of the snapshot that puts the default settings in the place of
\* a missing field
extract_proactive_config_defaults(snapshot) ==
    IF snapshot = NoConfig THEN [is_none |-> FALSE, value |-> DefaultSettings]
    ELSE [is_none |-> FALSE, value |-> WithInterval(snapshot)]

\* extract_proactive_config: None without the field, else the settings object
extract_proactive_config(snapshot) ==
    IF snapshot = NoConfig THEN [is_none |-> TRUE, value |-> DefaultSettings]
    ELSE [is_none |-> FALSE, value |-> WithInterval(snapshot)]

\* process_proactive_event(db, celery_app, cloud_event): it returns at once
\* for a document that does not exist, for a snapshot without settings and
\* for an unchanged interval; otherwise it loads the stored settings (interval
\* i) into a new app_config and runs the transaction with them
ProcessEventCall ==
    /\ call.n < MaxCalls
    /\ \E old \in Snapshots : \E new \in Snapshots :
          LET proactive_config_current == extract_proactive_config(new)
              proactive_config_old == extract_proactive_config(old)
              runs == /\ doc.exists
                      /\ ~proactive_config_current.is_none
                      /\ ~proactive_config_old.is_none
                      /\ should_reschedule(proactive_config_old.value,
                                           proactive_config_current.value)
          IN /\ fn' = [op |-> "event", exists |-> doc.exists, old |-> old,
                       new |-> new, ran |-> runs]
             /\ IF runs
                THEN \E i \in Snapshots \ {NoConfig} :
                     \E now \in Nows : \E k \in Randoms :
                        ExecuteUpdate("process_event", WithInterval(i), now, k)
                ELSE /\ Called("process_event", "none")
                     /\ UNCHANGED <<doc, status, owner, nextId, revokeCalls,
                                    revokedBy>>
    /\ UNCHANGED <<fleet, feed, panel, app, successor, eta, tx, stale, cancel>>

CallNext ==
    \/ CancelCall
    \/ ScheduleCall
    \/ ExecuteUpdateCall
    \/ ProcessEventCall

CallSpec == CallInit /\ [][CallNext]_vars

\* ------------------------------------------------------ change events
\* The admin app changes the stored interval of an enabled bot; every write
\* of the document puts a change event in flight, and the events are handled
\* one at a time, in any order and at any later time.
MaxWrites == 2
FormIntervals == 0..MaxInterval

EventInit ==
    /\ doc = [exists |-> TRUE, top_task |-> Absent, pm_task |-> Absent,
              pm_sched |-> Absent]
    /\ status = [t \in TaskIds |-> "none"]
    /\ nextId = 1
    /\ successor = [t \in TaskIds |-> Null]
    /\ eta = [t \in TaskIds |-> Null]
    /\ owner = [t \in TaskIds |-> 0]
    /\ revokeCalls = [t \in TaskIds |-> 0]
    /\ revokedBy = [t \in TaskIds |-> {}]
    /\ tx = [h \in Handlers |-> IdleTx]
    /\ stale = {}
    /\ cancel = IdleCancel
    /\ fn = NoFn
    /\ call = NoCall
    /\ fleet = NoFleet
    /\ panel = NoPanel
    /\ app = NoApp
    /\ \E i \in FormIntervals :
          feed = [writes |-> 0, stored |-> i, events |-> {},
                  handled |-> [task |-> Null, old |-> NoDays, new |-> NoDays,
                               now |-> Null]]

\* the proactive_messaging fields of an enabled bot whose interval is i
StoredEnabled(i) ==
    [exists |-> TRUE, enabled |-> 1, interval_days |-> i, system_prompt |-> 1,
     slack_channel |-> 1, temperature |-> Absent]

\* app_config.load_config_from_firebase_sync(db, bot_id) on a new SlackAppConfig
load_config_from_firebase_sync(stored) ==
    load_config_from_firebase(DefaultSettings, stored)

\* the settings process_proactive_event hands to the transaction: those of
\* the app_config it loaded from the stored document
TransactionSettings(stored) ==
    load_config_from_firebase_sync(StoredEnabled(stored)).settings

\* upload_entity_data with a new interval: the document is set anew, which
\* drops the ledger fields, and the change is reported
AdminWrite(i) ==
    /\ feed.writes < MaxWrites
    /\ i # feed.stored
    /\ feed' = [feed EXCEPT !.writes = @ + 1,
                            !.stored = i,
                            !.events = @ \cup {[old |-> feed.stored, new |-> i]}]
    /\ doc' = [doc EXCEPT !.top_task = Absent, !.pm_task = Absent,
                          !.pm_sched = Absent]
    /\ UNCHANGED <<fn, call, fleet, panel, app, status, successor, eta, owner, revokeCalls,
                   revokedBy, nextId, tx, stale, cancel>>

\* process_proactive_event for event e, with the transaction it runs; the
\* transaction's own write of the document is reported as a change too
HandleEvent(e) ==
    /\ e \in feed.events
    /\ IF ~should_reschedule(extract_proactive_config(e.old).value,
                             extract_proactive_config(e.new).value)
       THEN /\ feed' = [feed EXCEPT !.events = @ \ {e}]
            /\ UNCHANGED <<doc, status, eta, owner, nextId, revokeCalls,
                           revokedBy>>
       ELSE \E now \in Nows : \E k \in Randoms :
            LET r == calculate_next_schedule_time(
                         TransactionSettings(feed.stored), now, k)
            IN IF r.raised # "none"
               THEN /\ feed' = [feed EXCEPT !.events = @ \ {e}]
                    /\ UNCHANGED <<doc, status, eta, owner, nextId,
                                   revokeCalls, revokedBy>>
               ELSE /\ Enqueued(0)
                    /\ RevokeEach(revoke_existing_tasks(ReadPredecessor(doc)),
                                  0, [status EXCEPT ![nextId] = "pending"])
                    /\ eta' = [eta EXCEPT ![nextId] = r.value]
                    /\ doc' = TransactionUpdate(doc, nextId)
                    /\ feed' = [feed EXCEPT
                          !.events = (@ \ {e}) \cup
                              {[old |-> feed.stored, new |-> feed.stored]},
                          !.handled = [task |-> nextId, old |-> e.old,
                                       new |-> e.new, now |-> now]]
    /\ UNCHANGED <<fn, call, fleet, panel, app, successor, tx, stale, cancel>>

EventNext ==
    \/ \E i \in FormIntervals : AdminWrite(i)
    \/ \E e \in feed.events : HandleEvent(e)

EventSpec == EventInit /\ [][EventNext]_vars

\* ------------------------------------------------------- the admin panel
\* Two admin sessions on the task panel of one enabled bot. A session renders
\* the panel from the document it reads and then clicks the button it shows.
Sessions == {1, 2}

\* positional arguments of the call in proactive_task_panel, and parameters
\* of schedule_proactive_message_task
ScheduleCallArguments == 4
ScheduleParameters == 5

\* a call that binds whatever it is given
BindPositional_any(given, parameters) == "none"

\* the binding of a call's positional arguments to parameters without
\* defaults
BindPositional(given, parameters) ==
    IF given = parameters THEN "none" ELSE "TypeError"

AdminInit ==
    /\ \/ /\ doc = [exists |-> TRUE, top_task |-> Absent, pm_task |-> Absent,
                    pm_sched |-> Absent]
          /\ status = [t \in TaskIds |-> "none"]
          /\ nextId = 1
       \/ \E e \in Etas : \E s \in {Absent, IsoFormat(e)} : \E top \in {Absent, 1} :
          /\ doc = [exists |-> TRUE, top_task |-> top, pm_task |-> 1,
                    pm_sched |-> s]
          /\ status = [t \in TaskIds |-> IF t = 1 THEN "pending" ELSE "none"]
          /\ nextId = 2
    /\ successor = [t \in TaskIds |-> Null]
    /\ eta = [t \in TaskIds |-> Null]
    /\ owner = [t \in TaskIds |-> 0]
    /\ revokeCalls = [t \in TaskIds |-> 0]
    /\ revokedBy = [t \in TaskIds |-> {}]
    /\ tx = [h \in Handlers |-> IdleTx]
    /\ stale = {}
    /\ cancel = IdleCancel
    /\ fn = NoFn
    /\ call = NoCall
    /\ fleet = NoFleet
    /\ feed = NoFeed
    /\ app = NoApp
    /\ panel = [rendered |-> 0,
                of |-> [s \in Sessions |->
                          [pc |-> "start", clicked |-> FALSE, raised |-> "none"]]]

\* handle_proactive_task_tab and proactive_task_panel: the settings are read
\* from the document, and the button depends on the task id they hold
AdminRender(s) ==
    /\ panel.of[s].pc \in {"start", "raised"}
    /\ panel' = [panel EXCEPT
          !.rendered = s,
          !.of[s].pc = IF get_current_task_id(doc) # Null
                       THEN "cancel_button" ELSE "schedule_button"]
    /\ UNCHANGED <<fn, call, fleet, feed, app, doc, status, successor, eta, owner,
                   revokeCalls, revokedBy, nextId, tx, stale, cancel>>

\* "Schedule New Task": the call of schedule_proactive_message_task with the
\* panel's arguments, then st.rerun()
AdminScheduleClick(s) ==
    /\ panel.of[s].pc = "schedule_button"
    /\ IF BindPositional(ScheduleCallArguments, ScheduleParameters) # "none"
       THEN /\ panel' = [panel EXCEPT
                  !.of[s] = [pc |-> "raised", clicked |-> TRUE,
                             raised |-> BindPositional(ScheduleCallArguments,
                                                       ScheduleParameters)]]
            /\ UNCHANGED <<doc, status, owner, nextId>>
       ELSE /\ Enqueued(0)
            /\ status' = [status EXCEPT ![nextId] = "pending"]
            /\ \E e \in Etas : doc' = update_task_in_firestore(doc, nextId, e)
            /\ panel' = [panel EXCEPT
                  !.of[s] = [pc |-> "start", clicked |-> TRUE, raised |-> "none"]]
    /\ UNCHANGED <<fn, call, fleet, feed, app, successor, eta, revokeCalls,
                   revokedBy, tx, stale, cancel>>

\* "Cancel Current Task": cancel_current_proactive_message_task, then
\* st.rerun()
AdminCancelClick(s) ==
    /\ panel.of[s].pc = "cancel_button"
    /\ LET cur == get_current_task_id(doc)
       IN IF cur # Null
          THEN /\ RevokeEach({cur}, Canceller, status)
               /\ doc' = update_task_in_firestore(doc, Null, Null)
          ELSE UNCHANGED <<doc, status, revokeCalls, revokedBy>>
    /\ panel' = [panel EXCEPT !.of[s].pc = "start"]
    /\ UNCHANGED <<fn, call, fleet, feed, app, successor, eta, owner, nextId, tx,
                   stale, cancel>>

AdminNext ==
    \/ \E s \in Sessions : AdminRender(s)
    \/ \E s \in Sessions : AdminScheduleClick(s)
    \/ \E s \in Sessions : AdminCancelClick(s)

AdminSpec == AdminInit /\ [][AdminNext]_vars

\* --------------------------------------------------- the local scheduler
\* main.py with its in-process scheduler. A "date" job leaves the scheduler
\* when it is started; executions are counted by stage, so that nothing in
\* the state keeps two of them from overlapping.
MaxRuns == 3

\* a start-up that schedules whenever proactive messaging is enabled
StartsLocalSchedule_with_firebase(enabled, firebase) == enabled

\* if app_config.proactive_messaging_enabled and not app_config.firebase_enabled:
StartsLocalSchedule(enabled, firebase) == enabled /\ ~firebase

LocalInit ==
    /\ doc = [exists |-> TRUE, top_task |-> Absent, pm_task |-> Absent,
              pm_sched |-> Absent]
    /\ status = [t \in TaskIds |-> "none"]
    /\ nextId = 1
    /\ successor = [t \in TaskIds |-> Null]
    /\ eta = [t \in TaskIds |-> Null]
    /\ owner = [t \in TaskIds |-> 0]
    /\ revokeCalls = [t \in TaskIds |-> 0]
    /\ revokedBy = [t \in TaskIds |-> {}]
    /\ tx = [h \in Handlers |-> IdleTx]
    /\ stale = {}
    /\ cancel = IdleCancel
    /\ fn = NoFn
    /\ call = NoCall
    /\ fleet = NoFleet
    /\ feed = NoFeed
    /\ panel = NoPanel
    /\ \E enabled \in BOOLEAN : \E firebase \in BOOLEAN :
       \E i \in 1..MaxInterval :
          app = [started |-> FALSE, enabled |-> enabled, firebase |-> firebase,
                 interval_days |-> i, pending |-> 0, sending |-> 0, sent |-> 0,
                 runs |-> 0, run_date |-> Null]

\* schedule_next_proactive_message: the time, then scheduler.add_job
schedule_next_proactive_message(a, now, k) ==
    [a EXCEPT !.pending = @ + 1,
              !.run_date = calculate_next_schedule_time(
                               WithInterval(a.interval_days), now, k).value]

\* main(): the job added at start-up, and scheduler.start()
LocalStart ==
    /\ ~app.started
    /\ \E now \in Nows : \E k \in Randoms :
          app' = IF StartsLocalSchedule(app.enabled, app.firebase)
                 THEN [schedule_next_proactive_message(app, now, k)
                          EXCEPT !.started = TRUE]
                 ELSE [app EXCEPT !.started = TRUE]
    /\ UNCHANGED <<system, fn, call, fleet, feed, panel>>

\* the scheduler starts a due job, which leaves the job store
LocalFire ==
    /\ app.started
    /\ app.pending > 0
    /\ app.runs < MaxRuns
    /\ app' = [app EXCEPT !.pending = @ - 1, !.sending = @ + 1, !.runs = @ + 1]
    /\ UNCHANGED <<system, fn, call, fleet, feed, panel>>

\* send_proactive_message: generate_and_send_proactive_message returned
LocalSent ==
    /\ app.sending > 0
    /\ app' = [app EXCEPT !.sending = @ - 1, !.sent = @ + 1]
    /\ UNCHANGED <<system, fn, call, fleet, feed, panel>>

\* send_proactive_message: generate_and_send_proactive_message raised, and
\* the execution ends there
LocalSendRaises ==
    /\ app.sending > 0
    /\ app' = [app EXCEPT !.sending = @ - 1]
    /\ UNCHANGED <<system, fn, call, fleet, feed, panel>>

\* send_proactive_message: await schedule_next_proactive_message(context,
\* scheduler) as its last statement
LocalScheduleNext ==
    /\ app.sent > 0
    /\ \E now \in Nows : \E k \in Randoms :
          app' = [schedule_next_proactive_message(app, now, k)
                     EXCEPT !.sent = @ - 1]
    /\ UNCHANGED <<system, fn, call, fleet, feed, panel>>

LocalNext ==
    \/ LocalStart
    \/ LocalFire
    \/ LocalSent
    \/ LocalSendRaises
    \/ LocalScheduleNext

LocalSpec == LocalInit /\ [][LocalNext]_vars

\* ------------------------------------------------------ app_mention events
\* handle_mention_events of main.py, one step per awaited call. Every call to
\* Slack, Firestore or the chat model returns or raises.
Mentions == {1, 2}
MaxEmojis == 2
ERROR_EMOJI == "bangbang"
EXCLUDED_EMOJIS == {"eyes", ERROR_EMOJI}
EmojiCodes == {"eyes", ERROR_EMOJI, "smile"}
EmojiLists == UNION {[1..n -> EmojiCodes] : n \in 0..MaxEmojis}

\* [emoji for emoji in emoji_reactions if emoji not in EXCLUDED_EMOJIS]
WithoutExcluded(emojis) == SelectSeq(emojis, LAMBDA c : c \notin EXCLUDED_EMOJIS)

\* an exception inside the try block reaches `except Exception`
Raised(m) == [m EXCEPT !.pc = "except", !.raised = TRUE]

\* an exception outside the try block, or inside the except block, leaves
\* the handler
Escaped(m) == [m EXCEPT !.pc = "escaped"]

MentionInit ==
    /\ doc = [exists |-> TRUE, top_task |-> Absent, pm_task |-> Absent,
              pm_sched |-> Absent]
    /\ status = [t \in TaskIds |-> "none"]
    /\ nextId = 1
    /\ successor = [t \in TaskIds |-> Null]
    /\ eta = [t \in TaskIds |-> Null]
    /\ owner = [t \in TaskIds |-> 0]
    /\ revokeCalls = [t \in TaskIds |-> 0]
    /\ revokedBy = [t \in TaskIds |-> {}]
    /\ tx = [h \in Handlers |-> IdleTx]
    /\ stale = {}
    /\ cancel = IdleCancel
    /\ fn = NoFn
    /\ call = NoCall
    /\ fleet = NoFleet
    /\ feed = NoFeed
    /\ panel = NoPanel
    /\ \E firebase \in BOOLEAN : \E config \in [Mentions -> BOOLEAN] :
          app = [started |-> TRUE, firebase |-> firebase,
                 of |-> [e \in Mentions |->
                           [pc |-> "received", config |-> config[e],
                            raised |-> FALSE, reactions |-> {},
                            emojis |-> <<>>, apology |-> FALSE,
                            replied |-> FALSE]]]

\* client.reactions_add(name="eyes", ...), before the try block
MentionAddEyes(e) ==
    /\ app.of[e].pc = "received"
    /\ \E ok \in BOOLEAN :
          app' = [app EXCEPT !.of[e] =
                    IF ok THEN [@ EXCEPT !.pc = "try", !.reactions = @ \cup {"eyes"}]
                    ELSE Escaped(@)]
    /\ UNCHANGED <<system, fn, call, fleet, feed, panel>>

\* if app_config.firebase_enabled: load_config_from_firebase; then the
\* branch on "config" in the message text
MentionTry(e) ==
    /\ app.of[e].pc = "try"
    /\ \E ok \in BOOLEAN :
          /\ ~app.firebase => ok
          /\ app' = [app EXCEPT !.of[e] =
                       IF ok THEN [@ EXCEPT !.pc = IF app.of[e].config THEN "config_say"
                                                  ELSE "sentiment"]
                       ELSE Raised(@)]
    /\ UNCHANGED <<system, fn, call, fleet, feed, panel>>

\* say(text="*Current Configuration*...", thread_ts=thread_ts)
MentionConfigSay(e) ==
    /\ app.of[e].pc = "config_say"
    /\ \E ok \in BOOLEAN :
          app' = [app EXCEPT !.of[e] =
                    IF ok THEN [@ EXCEPT !.pc = "remove", !.replied = TRUE]
                    ELSE Raised(@)]
    /\ UNCHANGED <<system, fn, call, fleet, feed, panel>>

\* analyze_sentiment and the filter on EXCLUDED_EMOJIS
MentionSentiment(e) ==
    /\ app.of[e].pc = "sentiment"
    /\ \/ app' = [app EXCEPT !.of[e] = Raised(@)]
       \/ \E suggested \in EmojiLists :
             app' = [app EXCEPT !.of[e] =
                       [@ EXCEPT !.emojis = WithoutExcluded(suggested),
                                 !.pc = IF WithoutExcluded(suggested) = <<>>
                                        THEN "replies" ELSE "react"]]
    /\ UNCHANGED <<system, fn, call, fleet, feed, panel>>

\* one turn of the loop over emoji_reactions: Slack refuses a reaction the
\* bot has already put on the message
MentionReact(e) ==
    /\ app.of[e].pc = "react"
    /\ \E ok \in BOOLEAN :
          /\ Head(app.of[e].emojis) \in app.of[e].reactions => ~ok
          /\ app' = [app EXCEPT !.of[e] =
                       IF ok
                       THEN [@ EXCEPT !.reactions = @ \cup {Head(app.of[e].emojis)},
                                      !.emojis = Tail(@),
                                      !.pc = IF Tail(app.of[e].emojis) = <<>>
                                             THEN "replies" ELSE "react"]
                       ELSE Raised(@)]
    /\ UNCHANGED <<system, fn, call, fleet, feed, panel>>

\* client.conversations_replies and format_messages
MentionReplies(e) ==
    /\ app.of[e].pc = "replies"
    /\ \E ok \in BOOLEAN :
          app' = [app EXCEPT !.of[e] =
                    IF ok THEN [@ EXCEPT !.pc = "ask"] ELSE Raised(@)]
    /\ UNCHANGED <<system, fn, call, fleet, feed, panel>>

\* ask_question(formatted_messages, app_config)
MentionAsk(e) ==
    /\ app.of[e].pc = "ask"
    /\ \E ok \in BOOLEAN :
          app' = [app EXCEPT !.of[e] =
                    IF ok THEN [@ EXCEPT !.pc = "say"] ELSE Raised(@)]
    /\ UNCHANGED <<system, fn, call, fleet, feed, panel>>

\* say(text=response_message, thread_ts=thread_ts)
MentionSay(e) ==
    /\ app.of[e].pc = "say"
    /\ \E ok \in BOOLEAN :
          app' = [app EXCEPT !.of[e] =
                    IF ok THEN [@ EXCEPT !.pc = "remove", !.replied = TRUE]
                    ELSE Raised(@)]
    /\ UNCHANGED <<system, fn, call, fleet, feed, panel>>

\* except Exception: logger.error, then say(channel=user_id, text="Sorry...")
MentionApology(e) ==
    /\ app.of[e].pc = "except"
    /\ \E ok \in BOOLEAN :
          app' = [app EXCEPT !.of[e] =
                    IF ok THEN [@ EXCEPT !.pc = "error_reaction", !.apology = TRUE]
                    ELSE Escaped(@)]
    /\ UNCHANGED <<system, fn, call, fleet, feed, panel>>

\* except Exception: client.reactions_add(name=ERROR_EMOJI, ...)
MentionErrorReaction(e) ==
    /\ app.of[e].pc = "error_reaction"
    /\ \E ok \in BOOLEAN :
          /\ ERROR_EMOJI \in app.of[e].reactions => ~ok
          /\ app' = [app EXCEPT !.of[e] =
                       IF ok THEN [@ EXCEPT !.pc = "remove",
                                            !.reactions = @ \cup {ERROR_EMOJI}]
                       ELSE Escaped(@)]
    /\ UNCHANGED <<system, fn, call, fleet, feed, panel>>

\* client.reactions_remove(name="eyes", ...), after the try statement
MentionRemoveEyes(e) ==
    /\ app.of[e].pc = "remove"
    /\ \E ok \in BOOLEAN :
          app' = [app EXCEPT !.of[e] =
                    IF ok THEN [@ EXCEPT !.pc = "done", !.reactions = @ \ {"eyes"}]
                    ELSE Escaped(@)]
    /\ UNCHANGED <<system, fn, call, fleet, feed, panel>>

MentionNext ==
    \E e \in Mentions :
       \/ MentionAddEyes(e)
       \/ MentionTry(e)
       \/ MentionConfigSay(e)
       \/ MentionSentiment(e)
       \/ MentionReact(e)
       \/ MentionReplies(e)
       \/ MentionAsk(e)
       \/ MentionSay(e)
       \/ MentionApology(e)
       \/ MentionErrorReaction(e)
       \/ MentionRemoveEyes(e)

MentionSpec == MentionInit /\ [][MentionNext]_vars

TypeOK ==
    /\ doc.exists \in BOOLEAN
    /\ call.n \in 0..MaxCalls
    /\ fn.op \in {"none", "should_reschedule", "calculate", "worker_send", "construct", "event",
                 "format"}
    /\ \A h \in Handlers : tx[h].err \in
          {"none", "enqueue", "update", "revoke", "aborted", "commit"}
    /\ doc.pm_task \in {Absent, Null} \cup TaskIds
    /\ doc.top_task \in {Absent, Null} \cup TaskIds
    /\ nextId \in 1..(MaxTasks + 1)
    /\ \A t \in TaskIds : status[t] \in
          {"none", "pending", "running", "arming", "done", "failed", "revoked"}

\* ------------------------------------------------------- observations
Pending == {t \in TaskIds : status[t] = "pending"}
Live == {t \in TaskIds : status[t] \in {"pending", "running", "arming"}}

\* no scheduling transaction between its read and the end of its commit
NoTxMidSwap == \A h \in Handlers : tx[h].pc \in {"idle", "done", "failed"}

\* no operation of any kind in progress
Quiescent ==
    /\ NoTxMidSwap
    /\ cancel.pc \in {"idle", "done"}
    /\ \A t \in TaskIds : status[t] \notin {"running", "arming"}

\* ---------------------------------------------------------------- claims

\* C1: with no operation in progress, the queue holds at most one pending,
\* non-revoked proactive task for the bot.
C1_AtMostOnePending == Quiescent => Cardinality(Pending) <= 1

\* C2: whenever no scheduling transaction is mid-swap, a non-null ledger
\* current_task_id names a task that was enqueued, has not been revoked and is
\* pending or executing.
C2_LedgerNamesLiveTask ==
    (NoTxMidSwap /\ get_current_task_id(doc) # Null)
        => get_current_task_id(doc) \in Live

\* C3: a scheduling transaction that commits, for a bot whose ledger held a
\* non-null predecessor when it was read, has called revoke on that
\* predecessor exactly once and leaves the ledger naming the task it enqueued.
C3_PredecessorRevokedOnce ==
    [][\A h \in Handlers :
          (tx[h].pc = "commit" /\ tx'[h].pc = "done" /\ tx[h].ledger # Null)
              => /\ revokeCalls'[tx[h].ledger] = 1
                 /\ get_current_task_id(doc') = tx[h].new]_vars

\* C4: when the document write of a scheduling attempt raises after the
\* enqueue, the new task has been revoked on exit and the ledger is as it was;
\* for the transactional path and for the worker's re-arm.
C4_WriteFailureRevokesNew ==
    [][/\ \A h \in Handlers :
             (tx[h].pc \in {"idle", "retry"} /\ tx'[h].err = "update")
                 => /\ revokeCalls'[tx'[h].new] >= 1
                    /\ status'[tx'[h].new] = "revoked"
                    /\ doc' = doc
       /\ \A t \in TaskIds :
             (status[t] = "arming" /\ status'[t] = "failed")
                 => /\ revokeCalls'[successor[t]] >= 1
                    /\ doc' = doc]_vars

\* the ids handler h has called revoke on
RevokedByHandler(h) == {t \in TaskIds : h \in revokedBy[t]}

\* C5: a scheduling transaction that reached the enqueue revokes exactly one
\* task by the time it exits: the predecessor the ledger named (not the new
\* task) when it commits, its own new task (not the predecessor) when it fails.
C5_ExactlyOneRevoked ==
    \A h \in Handlers :
        /\ (tx[h].pc = "done" /\ tx[h].ledger # Null)
               => RevokedByHandler(h) = {tx[h].ledger}
        /\ (tx[h].pc = "failed" /\ tx[h].new # Null)
               => /\ tx[h].new \in RevokedByHandler(h)
                  /\ tx[h].ledger \notin RevokedByHandler(h)

\* C6: when the commit of the scheduling transaction fails, the task that
\* attempt enqueued is revoked, and the failure is retried or raised.
C6_CommitFailureRevokesNew ==
    [][\A h \in Handlers :
          (tx[h].pc = "commit" /\ tx'[h].pc # "commit" /\ tx'[h].pc # "done")
              => /\ revokeCalls'[tx[h].new] >= 1
                 /\ tx'[h].pc \in {"retry", "failed"}]_vars

OnlyHandlersActed ==
    /\ cancel.pc = "idle"
    /\ \A t \in TaskIds :
          status[t] \in {"none", "pending", "revoked"} /\ Canceller \notin revokedBy[t]

\* both handlers have finished and one of them had a commit aborted by the other
RaceFinished ==
    /\ OnlyHandlersActed
    /\ \A h \in Handlers : tx[h].pc \in {"done", "failed"}
    /\ \E h \in Handlers : tx[h].attempts >= 2

\* C8: after two concurrent scheduling transactions on the bot have both
\* finished, exactly one of the tasks they enqueued is pending and the ledger
\* names it.
C8_RaceLeavesOneTask ==
    RaceFinished =>
        LET theirs == UNION {tx[h].enqueued : h \in Handlers}
        IN /\ Cardinality(theirs \cap Pending) = 1
           /\ get_current_task_id(doc) \in theirs \cap Pending

\* C9: a scheduling transaction never revokes a task that the other handler's
\* transaction enqueued.
C9_LoserSparesWinner ==
    \A t \in TaskIds : \A h \in Handlers :
        (h \in revokedBy[t] /\ owner[t] \in Handlers) => owner[t] = h

\* a race the loser cleaned up after: h committed, g was aborted by it, ran
\* again, failed on its write and revoked its own task; h's task is pending
C9_Witness ==
    \E h \in Handlers : \E g \in Handlers \ {h} :
        /\ tx[h].pc = "done" /\ tx[g].pc = "failed" /\ tx[g].attempts >= 2
        /\ g \in revokedBy[tx[g].new]
        /\ status[tx[h].new] = "pending"
        /\ get_current_task_id(doc) = tx[h].new

\* C10: cancellation on a ledger that names T calls revoke(T) and then deletes
\* current_task_id and last_scheduled, so that a read finds neither.
C10_CancelClearsLedger ==
    [][/\ cancel.pc = "write" => Canceller \in revokedBy[cancel.cur]
       /\ (cancel.pc = "write" /\ cancel'.pc = "done")
             => /\ doc'.pm_task = Absent /\ doc'.pm_sched = Absent
                /\ get_current_task_id(doc') = Null]_vars

\* the cancellation of a ledger that held a task and a timestamp has finished
C10_Witness ==
    /\ cancel.pc = "done" /\ cancel.cur # Null
    /\ Canceller \in revokedBy[cancel.cur]
    /\ status[cancel.cur] = "revoked"
    /\ doc.pm_task = Absent /\ doc.pm_sched = Absent

\* C15: every firing of the worker ends its send with a successor armed: the
\* worker leaves its running stage only by enqueueing exactly one successor,
\* which is then pending, also when generating or posting the message raised.
C15_WorkerAlwaysRearms ==
    [][\A t \in TaskIds :
          (status[t] = "running" /\ status'[t] # "running")
              => /\ status'[t] = "arming"
                 /\ successor'[t] \in TaskIds
                 /\ status'[successor'[t]] = "pending"
                 /\ nextId' = nextId + 1]_vars

\* C17: every write of the ledger leaves current_task_id and last_scheduled
\* both present or both absent, and a worker's write stores the eta of the
\* task it names.
C17_LedgerPairConsistent ==
    [][/\ doc' # doc => ((doc'.pm_task = Absent) <=> (doc'.pm_sched = Absent))
       /\ \A t \in TaskIds :
             (status[t] = "arming" /\ status'[t] = "done")
                 => /\ doc'.pm_task = successor[t]
                    /\ FromIsoFormat(doc'.pm_sched) = eta[t]]_vars

\* C18: a scheduling attempt whose enqueue fails writes nothing: the document
\* and the queue are as they were, no revoke was called (the predecessor
\* stays), and the transaction ends failed; likewise for a worker that ends
\* without having enqueued a successor.
C18_EnqueueFailureWritesNothing ==
    [][/\ \A h \in Handlers :
             (tx[h].pc \in {"idle", "retry"} /\ tx'[h].err = "enqueue")
                 => /\ doc' = doc /\ status' = status /\ nextId' = nextId
                    /\ revokeCalls' = revokeCalls /\ revokedBy' = revokedBy
                    /\ tx'[h].pc = "failed"
       /\ \A t \in TaskIds :
             (status[t] = "running" /\ status'[t] = "failed")
                 => /\ doc' = doc /\ nextId' = nextId
                    /\ revokeCalls' = revokeCalls]_vars

\* a transaction failed at its enqueue on a document whose predecessor it had
\* read: the predecessor is pending, never revoked, and the ledger as read
C18_Witness ==
    \E h \in Handlers :
        /\ tx[h].pc = "failed" /\ tx[h].err = "enqueue"
        /\ tx[h].pred # Null /\ status[tx[h].pred] = "pending"
        /\ revokeCalls[tx[h].pred] = 0
        /\ tx[h].ledger # Null /\ get_current_task_id(doc) = tx[h].ledger

C12_RescheduleIffIntervalDiffers ==
    fn.op = "should_reschedule" =>
        /\ fn.old.interval_days # fn.new.interval_days => fn.result
        /\ fn.old.interval_days = fn.new.interval_days => ~fn.result
        /\ (fn.old.interval_days = NoDays /\ fn.new.interval_days = NoDays)
               => ~fn.result

\* two settings objects with the same interval that differ in every other
\* field were compared
C12_Witness ==
    /\ fn.op = "should_reschedule" /\ ~fn.result
    /\ fn.old.interval_days = fn.new.interval_days
    /\ fn.old.enabled # fn.new.enabled
    /\ fn.old.system_prompt # fn.new.system_prompt
    /\ fn.old.slack_channel # fn.new.slack_channel
    /\ fn.old.temperature # fn.new.temperature
    /\ fn.old.current_task_id # fn.new.current_task_id
    /\ fn.old.last_scheduled # fn.new.last_scheduled

\* C13: for a positive interval_days and any clock reading, the time that
\* calculate_next_schedule_time returns is no earlier than now and no later
\* than now plus twice the interval.
C13_ScheduleWithinTwiceInterval ==
    (fn.op = "calculate" /\ fn.settings.interval_days > 0) =>
        /\ fn.raised = "none"
        /\ fn.now <= fn.value
        /\ fn.value <= fn.now + 2 * fn.settings.interval_days * DayTicks

\* the largest random draw on a positive interval gave a time after now
C13_Witness ==
    /\ fn.op = "calculate" /\ fn.settings.interval_days > 0
    /\ fn.rnd = RandomSteps - 1
    /\ fn.raised = "none" /\ fn.value > fn.now

\* C14: calculate_next_schedule_time fails with an invalid-interval error
\* whenever interval_days is absent, zero or negative.
C14_NonPositiveIntervalRejected ==
    (fn.op = "calculate"
        /\ (fn.settings.interval_days = NoDays \/ fn.settings.interval_days <= 0))
            => fn.raised = "ValueError"

\* C16: the prompt, temperature and channel the worker sends with are those
\* stored in the bot document when it fires, whatever its payload carried.
C16_WorkerUsesStoredSettings ==
    (fn.op = "worker_send" /\ fn.raised = "none") =>
        /\ fn.used.system_prompt = fn.stored.system_prompt
        /\ fn.used.slack_channel = fn.stored.slack_channel
        /\ fn.stored.temperature # Absent
               => fn.used.temperature = fn.stored.temperature

\* C11: a cancellation leaves the ledger without a task id; one made right
\* after another cancellation, or on a bot with no ledger entry or no
\* document, calls no revoke and writes nothing.
C11_CancelIdempotent ==
    [][(call'.op = "cancel" /\ call'.n = call.n + 1)
          => /\ get_current_task_id(doc') = Null
             /\ (call.op = "cancel" \/ get_current_task_id(doc) = Null)
                   => /\ doc' = doc /\ status' = status
                      /\ revokeCalls' = revokeCalls
                      /\ revokedBy' = revokedBy]_vars

\* two cancellations in a row on a bot that had a task armed: the first revoked
\* it and cleared the ledger, the second found nothing to do
C11_Witness ==
    /\ call.op = "cancel" /\ call.prev = "cancel" /\ call.n = 2
    /\ doc.exists /\ doc.pm_task = Absent /\ doc.pm_sched = Absent
    /\ \E t \in TaskIds :
          /\ status[t] = "revoked" /\ revokeCalls[t] = 1
          /\ revokedBy[t] = {Canceller}

\* C20: while the bot document does not exist, no scheduling attempt leaves
\* anything behind: no task is pending and no field of the document is set.
C20_NoPartialState ==
    ~doc.exists =>
        /\ Pending = {}
        /\ doc.top_task = Absent /\ doc.pm_task = Absent /\ doc.pm_sched = Absent

\* C21: the ledger never holds a task id that the queue has not issued: every
\* scheduling attempt enqueues its task before the write that records the id.
C21_LedgerIdWasIssued ==
    get_current_task_id(doc) # Null
        => /\ get_current_task_id(doc) < nextId
           /\ status[get_current_task_id(doc)] # "none"

\* the ledger names a task that a transaction enqueued and committed, and one
\* that a worker enqueued and wrote
C21_Witness ==
    /\ get_current_task_id(doc) \in TaskIds
    /\ owner[get_current_task_id(doc)] \in Handlers
    /\ \E t \in TaskIds : status[t] = "done"

\* C22: without cancellation and failures and with a fair queue the chain of a
\* bot never dies: some task is pending or executing at every point, every
\* worker that ends its send has armed exactly one successor, and again and
\* again a message is sent.
C22_ChainNeverDies ==
    /\ [](Live # {})
    /\ [][\A t \in TaskIds :
             (status[t] = "running" /\ status'[t] # "running")
                 => /\ status'[t] = "arming"
                    /\ Pending' = Pending \cup {successor'[t]}
                    /\ successor'[t] \notin Pending]_vars
    /\ []<>(\E t \in TaskIds : status[t] = "arming")

\* the third task of a chain is pending: two workers before it have fired,
\* sent, armed their successor and finished
C22_Witness ==
    \E t \in TaskIds :
        /\ status[t] = "pending" /\ get_current_task_id(doc) = t
        /\ \A u \in TaskIds \ {t} : status[u] = "done"

\* C23: an operation called for bot a leaves the ledger fields of every other
\* bot b as they were, revokes no task of b and enqueues none for b.
C23_BotsIndependent ==
    [][\A a \in Bots : \A b \in Bots \ {a} :
          fleet'.last = a
              => /\ fleet'.docs[b] = fleet.docs[b]
                 /\ \A t \in TaskIds :
                       /\ fleet.of[t] = b
                             => /\ status'[t] = status[t]
                                /\ revokeCalls'[t] = revokeCalls[t]
                                /\ fleet'.of[t] = b
                       /\ fleet.of[t] = 0 => fleet'.of[t] # b]_vars

\* a transaction for bot 1 revoked the predecessor of bot 1 while bot 2 was
\* armed: the task of bot 2 is pending and named in its ledger
C23_Witness ==
    /\ fleet.last = 1
    /\ \E t \in TaskIds :
          fleet.of[t] = 1 /\ status[t] = "revoked" /\ revokedBy[t] = {0}
    /\ \E u \in TaskIds :
          /\ fleet.of[u] = 2 /\ status[u] = "pending"
          /\ get_current_task_id(fleet.docs[2]) = u

\* C24: a construction asking for enabled = true is accepted only if
\* interval_days, system_prompt and slack_channel are all given and not None,
\* and is rejected with an error otherwise; a construction with enabled false
\* or not given is accepted whatever else is absent.
C24_EnabledNeedsRequiredFields ==
    fn.op = "construct"
        => LET wanted == "enabled" \in fn.given /\ fn.kw.enabled
               absent == {f \in SettingsFields \ {"enabled"} :
                             \/ f \notin fn.given
                             \/ f = "interval_days" /\ fn.kw.interval_days = NoDays
                             \/ f = "system_prompt" /\ fn.kw.system_prompt = Null
                             \/ f = "slack_channel" /\ fn.kw.slack_channel = Null}
           IN /\ fn.raised <=> (wanted /\ absent # {})
              /\ ~fn.raised => fn.value.enabled = wanted

\* an enabled construction rejected for its channel alone
C24_Witness ==
    /\ fn.op = "construct"
    /\ fn.raised
    /\ fn.given = SettingsFields
    /\ fn.kw.enabled
    /\ fn.kw.interval_days = 1
    /\ fn.kw.system_prompt = 1
    /\ fn.kw.slack_channel = Null

C26_ReadReturnsLastWrite ==
    [][(doc' # doc /\ doc'.pm_task \in TaskIds)
          => /\ get_current_task_id(doc') = doc'.pm_task
             /\ ReadPredecessor(doc') = doc'.pm_task]_vars

C28_OneMessageEach ==
    fn.op = "format"
        => /\ Len(fn.value) = Len(fn.thread)
           /\ \A i \in 1..Len(fn.thread) :
                 IF fn.thread[i].user = BotUserId
                 THEN /\ fn.value[i].type = "ai"
                      /\ fn.value[i].text = fn.thread[i].text
                 ELSE fn.value[i].type = "human"

\* C28 amended: for a thread in ascending order of ts whose images download
\* (or with vision disabled), format_messages returns one message per thread
\* message, in the same order: an AI message for a message of the bot, whose
\* content is the message's text without the bot's mention and without outer
\* whitespace, and a Human message for every other message. For any other
\* thread it raises and returns nothing.
C28_OneMessageEachNormalised ==
    fn.op = "format"
        => LET sorted == \A i \in 1..Len(fn.thread) : \A j \in i..Len(fn.thread) :
                             fn.thread[i].ts <= fn.thread[j].ts
               downloads == \A i \in 1..Len(fn.thread) :
                               fn.vision_enabled => fn.thread[i].image # "fails"
           IN IF sorted /\ downloads
              THEN /\ fn.raised = "none"
                   /\ Len(fn.value) = Len(fn.thread)
                   /\ \A i \in 1..Len(fn.thread) :
                         IF fn.thread[i].user = BotUserId
                         THEN /\ fn.value[i].type = "ai"
                              /\ fn.value[i].text
                                    = Strip(RemoveMentions(fn.thread[i].text))
                         ELSE fn.value[i].type = "human"
              ELSE fn.raised # "none" /\ fn.value = <<>>

\* a thread of a user's message and the bot's answer, formatted in that order
C28_Witness ==
    /\ fn.op = "format"
    /\ fn.raised = "none"
    /\ Len(fn.thread) = 2
    /\ fn.thread[1].user = "U2"
    /\ fn.thread[2].user = BotUserId
    /\ fn.thread[2].text = <<"m", "s", "w", "s">>
    /\ fn.value[1].type = "human"
    /\ fn.value[2].type = "ai"
    /\ fn.value[2].text = <<"w">>

\* C29: the worker of a task that fires for a bot whose stored enabled flag
\* is false sends no message.
C29_DisabledBotSendsNothing ==
    (fn.op = "worker_send" /\ fn.stored.exists /\ fn.stored.enabled = 0)
        => fn.raised # "none"

\* C30: when a cancellation has called revoke on a task whose worker had
\* started, no scheduling transaction was ever requested, and the
\* cancellation and every worker have finished, the ledger names no task and
\* no task is pending.
C30_CancelFinalAgainstRunningWorker ==
    (/\ \E t \in TaskIds : status[t] = "done" /\ Canceller \in revokedBy[t]
     /\ cancel.pc \in {"idle", "done"}
     /\ \A h \in Handlers : tx[h] = IdleTx
     /\ Live \ Pending = {})
        => /\ get_current_task_id(doc) = Null
           /\ Pending = {}

C32_AbandonedAttemptsRevoked ==
    \A h \in Handlers :
        (tx[h].pc = "done" /\ tx[h].attempts >= 2)
            => \A u \in tx[h].enqueued \ {tx[h].new} : status[u] = "revoked"

\* C33: the ledger write that ends a worker firing stores the id of the
\* successor the worker enqueued, never the id of the task that fired, and
\* the successor's eta as last_scheduled.
C33_WorkerWritesSuccessor ==
    [][\A t \in TaskIds :
          (status[t] = "arming" /\ status'[t] = "done")
              => /\ get_current_task_id(doc') = successor[t]
                 /\ get_current_task_id(doc') # t
                 /\ FromIsoFormat(doc'.pm_sched) = eta[t]]_vars

\* a worker has finished and the ledger names the pending successor it
\* enqueued, with a time
C33_Witness ==
    /\ \E t \in TaskIds : status[t] = "done"
    /\ get_current_task_id(doc) \in Pending
    /\ owner[get_current_task_id(doc)] = 0
    /\ get_current_task_id(doc) > 1
    /\ doc.pm_sched # Absent
    /\ \A h \in Handlers : tx[h] = IdleTx

====
